---- MODULE Spec2Model ----
(***************************************************************************)
(* A model of TokenTracker (src/bot.py): the balance / transaction-log /   *)
(* token-info caches sharing one refresh timestamp, and the holder         *)
(* aggregation and address-history queries computed from the cached log.   *)
(*                                                                         *)
(* Every public method is one action that models the whole call.  The      *)
(* upstream providers are the environment: chain_balance and chain_log     *)
(* hold what they would answer, and each call draws, with \E, the set of   *)
(* upstream calls (numbered in call order within the method) that raise.   *)
(*                                                                         *)
(* The HTTP handlers are actions of their own over the same methods, and   *)
(* the cached reads are also modelled step by step, as two server threads  *)
(* interleave them on the shared, unlocked tracker.                        *)
(***************************************************************************)
EXTENDS Integers, Sequences, FiniteSets, TLC

\* ------------------------------------------------------------------ bounds
MaxTicks == 2        \* clock advances modelled after construction
MaxBatch == 2        \* longest get_balance_batch input
MaxLog == 2          \* longest upstream transaction log
MaxN == 3            \* largest n / limit passed to a query

\* ------------------------------------------------------- program constants
cache_lifetime == 300

\* The clock at construction: time.time() is far above cache_lifetime, so the
\* initial _last_cache_update = 0 never counts as fresh.
StartTime == 2 * cache_lifetime
\* The clock advances in steps of half a lifetime: ages 0, 1/2, 1, 3/2, ...
\* lifetimes, which puts reads on both sides of, and exactly at, the limit.
TickStep == cache_lifetime \div 2

\* ---------------------------------------------------------------- addresses
\* A textual address is <<account, form>>.  Account 0 is the all-zero address;
\* its lower-case and EIP-55 renderings are the same string, so it has one form.
Accounts == {1, 2, 3}
Lower(a) == <<a, "lower">>
Checksum(a) == <<a, "checksum">>
ZERO_ADDRESS == <<0, "lower">>
Texts == {ZERO_ADDRESS} \cup {Lower(a) : a \in Accounts} \cup {Checksum(a) : a \in Accounts}

\* A text that is no address: to_checksum_address raises on it.
BAD_ADDRESS == <<-3, "malformed">>
is_address(t) == t \in Texts
InvalidAddress == [error |-> "InvalidAddress"]

to_checksum_address(t) == IF t[1] = 0 THEN ZERO_ADDRESS ELSE Checksum(t[1])
str_lower(t) == Lower(t[1])
ChecksumAddrs == {to_checksum_address(t) : t \in Texts}

\* ------------------------------------------------------------------ numbers
RECURSIVE GCD(_, _)
GCD(a, b) == IF b = 0 THEN a ELSE GCD(b, a % b)

RECURSIVE Pow10(_)
Pow10(d) == IF d = 0 THEN 1 ELSE 10 * Pow10(d - 1)

\* The float a / b of Python's true division, kept exact as a reduced fraction.
TrueDiv(a, b) == LET g == GCD(a, b) IN [num |-> a \div g, den |-> b \div g]
\* The int 0 that the error paths return (0 == 0.0 in Python).
Zero == [num |-> 0, den |-> 1]
Gt(x, y) == x.num * y.den > y.num * x.den
IsPositive(x) == x.num > 0

\* int(s) of a decimal string, a sequence of digits
RECURSIVE int(_)
int(s) == IF s = <<>> THEN 0 ELSE 10 * int(SubSeq(s, 1, Len(s) - 1)) + s[Len(s)]

\* ------------------------------------------------------------------- state
VARIABLES
    now,                \* time.time()
    decimals,           \* self.decimals
    hash_seed,          \* the process's string-hash seed (PYTHONHASHSEED)
    balance_cache,      \* self._balance_cache : checksum address -> balance
    tx_cache,           \* self._tx_cache ({} and [] are both <<>>)
    token_info_cache,   \* self._token_info_cache (None is NoInfo)
    last_cache_update,  \* self._last_cache_update
    chain_balance,      \* upstream: balanceOf per account, raw units
    chain_log,          \* upstream: the tokentx page, newest first
    requests,           \* per handler thread, the cached read it is executing
    fetched_at,         \* history: per cache key, when it was last stored (-1: never)
    last                \* history: the last completed call and what it returned

vars == <<now, decimals, hash_seed, balance_cache, tx_cache, token_info_cache,
          last_cache_update, chain_balance, chain_log, requests, fetched_at, last>>

NoInfo == [none |-> TRUE]
EmptyObject == [empty |-> TRUE]
\* The two singleton keys, shaped like the address keys.
TOKEN_INFO == <<-1, "token-info">>
TX_LOG == <<-2, "transaction-log">>
CacheKeys == ChecksumAddrs \cup {TOKEN_INFO, TX_LOG}

\* The tracker's fields (and the per-key history) as one value, threaded
\* through the methods below.
Self == [balance_cache |-> balance_cache, tx_cache |-> tx_cache,
         token_info_cache |-> token_info_cache,
         last_cache_update |-> last_cache_update, fetched_at |-> fetched_at]

\* How long before `now` the entry of `key` was stored (-1: never stored).
AgeOf(c, key) == IF c.fetched_at[key] = -1 THEN -1 ELSE now - c.fetched_at[key]

\* ------------------------------------------------------------ cache methods
_is_cache_valid(c) == now - c.last_cache_update < cache_lifetime

\* Faulty variant, for contrast: the refresh is recorded for the key but the shared timestamp is left
_update_cache_timestamp_stale(c, key) == [c EXCEPT !.fetched_at[key] = now]

_update_cache_timestamp(c, key) ==
    [c EXCEPT !.last_cache_update = now, !.fetched_at[key] = now]

\* Faulty variant, for contrast: one decimal place too many
format_balance_shifted(balance) == TrueDiv(balance, Pow10(decimals + 1))

format_balance(balance) == TrueDiv(balance, Pow10(decimals))

\* contract.functions.balanceOf(address).call()
balanceOf(address) == chain_balance[address[1]]

\* A method's result: the tracker after it, the value returned, the number k of
\* upstream calls the enclosing call has made so far, and whether this call was
\* answered from the cache.  The k-th upstream call raises when k \in fails.
\* raised: the call left by an exception (to_checksum_address is outside the try).
\* Faulty variant, for contrast: a failed fetch falls back to the entry still held
get_balance_stale_fallback(c, addr, k, fails) ==
    IF ~is_address(addr)
    THEN [c |-> c, ret |-> InvalidAddress, k |-> k, hit |-> FALSE, ok |-> FALSE, raised |-> TRUE]
    ELSE
    LET address == to_checksum_address(addr) IN
    IF _is_cache_valid(c) /\ address \in DOMAIN c.balance_cache
    THEN [c |-> c, ret |-> c.balance_cache[address], k |-> k, hit |-> TRUE, ok |-> TRUE,
          raised |-> FALSE]
    ELSE IF (k + 1) \in fails
         THEN [c |-> c,
               ret |-> IF address \in DOMAIN c.balance_cache
                       THEN c.balance_cache[address] ELSE Zero,
               k |-> k + 1, hit |-> FALSE, ok |-> FALSE, raised |-> FALSE]
         ELSE LET formatted_balance == format_balance(balanceOf(address))
                  stored == [c EXCEPT !.balance_cache =
                                (address :> formatted_balance) @@ c.balance_cache]
              IN [c |-> _update_cache_timestamp(stored, address),
                  ret |-> formatted_balance, k |-> k + 1, hit |-> FALSE, ok |-> TRUE,
                  raised |-> FALSE]

get_balance(c, addr, k, fails) ==
    IF ~is_address(addr)
    THEN [c |-> c, ret |-> InvalidAddress, k |-> k, hit |-> FALSE, ok |-> FALSE, raised |-> TRUE]
    ELSE
    LET address == to_checksum_address(addr) IN
    IF _is_cache_valid(c) /\ address \in DOMAIN c.balance_cache
    THEN [c |-> c, ret |-> c.balance_cache[address], k |-> k, hit |-> TRUE, ok |-> TRUE,
          raised |-> FALSE]
    ELSE IF (k + 1) \in fails
         THEN [c |-> c, ret |-> Zero, k |-> k + 1, hit |-> FALSE, ok |-> FALSE,
               raised |-> FALSE]
         ELSE LET formatted_balance == format_balance(balanceOf(address))
                  stored == [c EXCEPT !.balance_cache =
                                (address :> formatted_balance) @@ c.balance_cache]
              IN [c |-> _update_cache_timestamp(stored, address),
                  ret |-> formatted_balance, k |-> k + 1, hit |-> FALSE, ok |-> TRUE,
                  raised |-> FALSE]

\* Faulty variant, for contrast: the results are collected last address first
RECURSIVE get_balance_batch_reversed(_, _, _, _)
get_balance_batch_reversed(c, addresses, k, fails) ==
    IF addresses = <<>>
    THEN [c |-> c, ret |-> <<>>, k |-> k, oks |-> <<>>, raised |-> FALSE]
    ELSE LET r == get_balance(c, Head(addresses), k, fails)
             rest == get_balance_batch_reversed(r.c, Tail(addresses), r.k, fails)
         IN IF r.raised
            THEN [c |-> r.c, ret |-> r.ret, k |-> r.k, oks |-> <<>>, raised |-> TRUE]
            ELSE IF rest.raised THEN rest
            ELSE [c |-> rest.c, ret |-> rest.ret \o <<r.ret>>, k |-> rest.k,
                  oks |-> <<r.ok>> \o rest.oks, raised |-> FALSE]

\* [self.get_balance(addr) for addr in addresses], left to right; an exception
\* of one lookup ends the comprehension and keeps what the earlier ones stored.
\* oks: per address, whether its lookup got a value (cached or fetched).
RECURSIVE get_balance_batch(_, _, _, _)
get_balance_batch(c, addresses, k, fails) ==
    IF addresses = <<>>
    THEN [c |-> c, ret |-> <<>>, k |-> k, oks |-> <<>>, raised |-> FALSE]
    ELSE LET r == get_balance(c, Head(addresses), k, fails)
             rest == get_balance_batch(r.c, Tail(addresses), r.k, fails)
         IN IF r.raised
            THEN [c |-> r.c, ret |-> r.ret, k |-> r.k, oks |-> <<>>, raised |-> TRUE]
            ELSE IF rest.raised THEN rest
            ELSE [c |-> rest.c, ret |-> <<r.ret>> \o rest.ret, k |-> rest.k,
                  oks |-> <<r.ok>> \o rest.oks, raised |-> FALSE]

\* requests.get(...).json(): one upstream call.  It fails by raising, by a status
\* other than '1' or by a missing result field; the three leave the tracker
\* untouched and return [].
\* Faulty variant, for contrast: the failure default [] is stored like a fetched log
_get_token_transactions_caching_failure(c, k, fails) ==
    IF _is_cache_valid(c) /\ c.tx_cache # <<>>
    THEN [c |-> c, ret |-> c.tx_cache, k |-> k, hit |-> TRUE, ok |-> TRUE]
    ELSE IF (k + 1) \in fails
         THEN [c |-> _update_cache_timestamp([c EXCEPT !.tx_cache = <<>>], TX_LOG),
               ret |-> <<>>, k |-> k + 1, hit |-> FALSE, ok |-> FALSE]
         ELSE [c |-> _update_cache_timestamp([c EXCEPT !.tx_cache = chain_log], TX_LOG),
               ret |-> chain_log, k |-> k + 1, hit |-> FALSE, ok |-> TRUE]

_get_token_transactions(c, k, fails) ==
    IF _is_cache_valid(c) /\ c.tx_cache # <<>>
    THEN [c |-> c, ret |-> c.tx_cache, k |-> k, hit |-> TRUE, ok |-> TRUE]
    ELSE IF (k + 1) \in fails
         THEN [c |-> c, ret |-> <<>>, k |-> k + 1, hit |-> FALSE, ok |-> FALSE]
         ELSE [c |-> _update_cache_timestamp([c EXCEPT !.tx_cache = chain_log], TX_LOG),
               ret |-> chain_log, k |-> k + 1, hit |-> FALSE, ok |-> TRUE]

\* contract.functions.symbol() / name() / totalSupply(), in that order.  The
\* token's metadata is the chain's to change: each clock step brings a new
\* generation of it (a rename, a burn), so answers fetched at different times
\* can be told apart.
ChainSymbol == "SYM"
ChainName == "Token"
ChainSupply == 5000000
Generation == (now - StartTime) \div TickStep
symbol == <<ChainSymbol, Generation>>
name == <<ChainName, Generation>>
totalSupply == ChainSupply - Generation

\* Faulty variant, for contrast: each answer is written into the cached object as
\* it arrives
get_token_info_piecewise(c, k, fails) ==
    LET held == IF c.token_info_cache = NoInfo THEN <<>> ELSE c.token_info_cache
        one == ("symbol" :> symbol) @@ held
        two == ("name" :> name) @@ one
        info == ("totalSupply" :> format_balance(totalSupply)) @@ two
    IN
    IF _is_cache_valid(c) /\ c.token_info_cache \notin {NoInfo, EmptyObject}
    THEN [c |-> c, ret |-> c.token_info_cache, k |-> k, hit |-> TRUE, ok |-> TRUE]
    ELSE IF (k + 1) \in fails
    THEN [c |-> c, ret |-> EmptyObject, k |-> k + 1, hit |-> FALSE, ok |-> FALSE]
    ELSE IF (k + 2) \in fails
    THEN [c |-> [c EXCEPT !.token_info_cache = one], ret |-> EmptyObject, k |-> k + 2,
          hit |-> FALSE, ok |-> FALSE]
    ELSE IF (k + 3) \in fails
    THEN [c |-> [c EXCEPT !.token_info_cache = two], ret |-> EmptyObject, k |-> k + 3,
          hit |-> FALSE, ok |-> FALSE]
    ELSE [c |-> _update_cache_timestamp([c EXCEPT !.token_info_cache = info], TOKEN_INFO),
          ret |-> info, k |-> k + 3, hit |-> FALSE, ok |-> TRUE]

get_token_info(c, k, fails) ==
    IF _is_cache_valid(c) /\ c.token_info_cache \notin {NoInfo, EmptyObject}
    THEN [c |-> c, ret |-> c.token_info_cache, k |-> k, hit |-> TRUE, ok |-> TRUE]
    ELSE IF (k + 1) \in fails
    THEN [c |-> c, ret |-> EmptyObject, k |-> k + 1, hit |-> FALSE, ok |-> FALSE]
    ELSE IF (k + 2) \in fails
    THEN [c |-> c, ret |-> EmptyObject, k |-> k + 2, hit |-> FALSE, ok |-> FALSE]
    ELSE IF (k + 3) \in fails
    THEN [c |-> c, ret |-> EmptyObject, k |-> k + 3, hit |-> FALSE, ok |-> FALSE]
    ELSE LET info == [symbol |-> symbol, name |-> name,
                      totalSupply |-> format_balance(totalSupply)]
         IN [c |-> _update_cache_timestamp([c EXCEPT !.token_info_cache = info], TOKEN_INFO),
             ret |-> info, k |-> k + 3, hit |-> FALSE, ok |-> TRUE]

\* ------------------------------------------------------- holder aggregation
Min(a, b) == IF a < b THEN a ELSE b
Max(a, b) == IF a > b THEN a ELSE b

\* Faulty variant, for contrast: seq[:n + 1]
Slice_inclusive(seq, n) == SubSeq(seq, 1, Min(n + 1, Len(seq)))

\* seq[:n] of Python, n of either sign
Slice(seq, n) ==
    IF n >= 0 THEN SubSeq(seq, 1, Min(n, Len(seq)))
    ELSE SubSeq(seq, 1, Max(Len(seq) + n, 0))

\* sorted(seq, key=lambda x: x[1], reverse=True): descending by balance, and
\* stable (entries of equal balance keep the order they came in).
\* Faulty variant, for contrast: reverse=True forgotten: ascending
sort_insert_ascending(done, x) ==
    LET pos == Cardinality({i \in 1..Len(done) : ~Gt(done[i][2], x[2])})
    IN SubSeq(done, 1, pos) \o <<x>> \o SubSeq(done, pos + 1, Len(done))

sort_insert(done, x) ==
    LET pos == Cardinality({i \in 1..Len(done) : ~Gt(x[2], done[i][2])})
    IN SubSeq(done, 1, pos) \o <<x>> \o SubSeq(done, pos + 1, Len(done))

RECURSIVE sorted_by_balance(_)
sorted_by_balance(seq) ==
    IF seq = <<>> THEN <<>>
    ELSE sort_insert(sorted_by_balance(SubSeq(seq, 1, Len(seq) - 1)), seq[Len(seq)])

\* The set built by addresses.add(tx['from']); addresses.add(tx['to'])
AddressesOf(transactions) ==
    UNION {{transactions[i].from, transactions[i].to} : i \in 1..Len(transactions)}

\* The order in which a Python set hands out its elements follows the strings'
\* hashes, which are seeded once per process: hash_seed picks one of two
\* opposite orders of the textual addresses.
str_hash(t) == (IF hash_seed = 1 THEN 1 ELSE -1) * (2 * t[1] + (IF t[2] = "checksum" THEN 1 ELSE 0))

RECURSIVE set_iter(_)
set_iter(S) ==
    IF S = {} THEN <<>>
    ELSE LET x == CHOOSE y \in S : \A z \in S : str_hash(y) <= str_hash(z)
         IN <<x>> \o set_iter(S \ {x})

\* The loop `for address in addresses` of get_top_holders, in iteration order.
\* looked: the balance get_balance returned for each address it was asked for.
RECURSIVE collect_holders(_, _, _, _)
collect_holders(c, order, k, fails) ==
    IF order = <<>>
    THEN [c |-> c, holders |-> <<>>, k |-> k, looked |-> <<>>]
    ELSE LET address == Head(order) IN
         IF address # ZERO_ADDRESS
         THEN LET b == get_balance(c, address, k, fails)
                  rest == collect_holders(b.c, Tail(order), b.k, fails)
              IN [c |-> rest.c,
                  holders |-> (IF ~b.raised /\ IsPositive(b.ret)
                               THEN <<<<address, b.ret>>>> ELSE <<>>)
                              \o rest.holders,
                  k |-> rest.k,
                  looked |-> <<<<address, b.ret>>>> \o rest.looked]
         ELSE collect_holders(c, Tail(order), k, fails)

\* get_top_holders up to its sort; the caller's n only cuts the result.
ranked_holders(c, k, fails) ==
    LET t == _get_token_transactions(c, k, fails) IN
    IF t.ret = <<>>
    THEN [c |-> t.c, ret |-> <<>>, k |-> t.k, log |-> t.ret, looked |-> <<>>]
    ELSE LET h == collect_holders(t.c, set_iter(AddressesOf(t.ret)), t.k, fails)
         IN [c |-> h.c, ret |-> sorted_by_balance(h.holders), k |-> h.k,
             log |-> t.ret, looked |-> h.looked]

\* return sorted(...)[:n]
top_n(ranked, n) == [ranked EXCEPT !.ret = Slice(ranked.ret, n)]

get_top_holders(c, n, k, fails) == top_n(ranked_holders(c, k, fails), n)

\* datetime.fromtimestamp(ts).strftime('%Y-%m-%d %H:%M:%S'), read in UTC: the
\* day count and the hour, minute and second of the day.
strftime(ts) == <<ts \div 86400, (ts % 86400) \div 3600, (ts % 3600) \div 60, ts % 60>>

HasKey(holders_data, address) == \E i \in 1..Len(holders_data) : holders_data[i][1] = address

\* The two nested loops of get_top_with_transactions over the pairs
\* (tx, address), address running over [tx['to'], tx['from']].  holders_data is
\* the dict in insertion order, one <<address, balance, last_tx>> per key.
RECURSIVE collect_with_transactions(_, _, _, _, _)
collect_with_transactions(c, pairs, holders_data, k, fails) ==
    IF pairs = <<>>
    THEN [c |-> c, holders_data |-> holders_data, k |-> k, looked |-> <<>>]
    ELSE LET tx == Head(pairs)[1]
             address == Head(pairs)[2]
         IN IF ~HasKey(holders_data, address) /\ address # ZERO_ADDRESS
            THEN LET b == get_balance(c, address, k, fails)
                     timestamp == strftime(int(tx.timeStamp))
                     data == IF ~b.raised /\ IsPositive(b.ret)
                             THEN Append(holders_data, <<address, b.ret, timestamp>>)
                             ELSE holders_data
                     rest == collect_with_transactions(b.c, Tail(pairs), data, b.k, fails)
                 IN [rest EXCEPT !.looked = <<<<address, b.ret>>>> \o @]
            ELSE collect_with_transactions(c, Tail(pairs), holders_data, k, fails)

RECURSIVE AddressPairs(_)
AddressPairs(transactions) ==
    IF transactions = <<>> THEN <<>>
    ELSE LET tx == Head(transactions)
         IN <<<<tx, tx.to>>, <<tx, tx.from>>>> \o AddressPairs(Tail(transactions))

\* get_top_with_transactions up to its sort
ranked_with_transactions(c, k, fails) ==
    LET t == _get_token_transactions(c, k, fails) IN
    IF t.ret = <<>>
    THEN [c |-> t.c, ret |-> <<>>, k |-> t.k, log |-> t.ret, looked |-> <<>>]
    ELSE LET h == collect_with_transactions(t.c, AddressPairs(t.ret), <<>>, t.k, fails)
         IN [c |-> h.c, ret |-> sorted_by_balance(h.holders_data), k |-> h.k,
             log |-> t.ret, looked |-> h.looked]

get_top_with_transactions(c, n, k, fails) == top_n(ranked_with_transactions(c, k, fails), n)

\* The loop of get_address_history over the log: a record that touches the
\* address is appended, and the loop leaves once limit entries are held (the
\* test follows every record, matching or not).
history_entry(tx, address) ==
    LET received == str_lower(tx.to) = str_lower(address) IN
    [type |-> IF received THEN "receive" ELSE "send",
     counterparty |-> IF received THEN tx.from ELSE tx.to,
     amount |-> format_balance(int(tx.value)),
     timestamp |-> strftime(int(tx.timeStamp))]

\* Faulty variant, for contrast: the comparison without .lower()
touches_exact(tx, address) == tx.to = address \/ tx.from = address

touches(tx, address) ==
    str_lower(tx.to) = str_lower(address) \/ str_lower(tx.from) = str_lower(address)

RECURSIVE history_loop(_, _, _, _)
history_loop(transactions, address, address_txs, limit) ==
    IF transactions = <<>> THEN address_txs
    ELSE LET tx == Head(transactions)
             txs == IF touches(tx, address)
                    THEN Append(address_txs, history_entry(tx, address))
                    ELSE address_txs
         IN IF Len(txs) >= limit THEN txs
            ELSE history_loop(Tail(transactions), address, txs, limit)

\* The whole body is inside one try: to_checksum_address raising on the address
\* (after the log has been read) ends in `return []`.
get_address_history(c, addr, limit, k, fails) ==
    LET t == _get_token_transactions(c, k, fails) IN
    IF ~is_address(addr)
    THEN [c |-> t.c, ret |-> <<>>, k |-> t.k, log |-> t.ret]
    ELSE LET address == to_checksum_address(addr)
         IN [c |-> t.c, ret |-> history_loop(t.ret, address, <<>>, limit), k |-> t.k,
             log |-> t.ret]

\* ------------------------------------------------------- concurrent requests
\* The server answers each request on a thread of its own; the tracker is
\* shared and unlocked.  A cached read then runs as separate steps between
\* which other threads run: the cache test, the upstream call, the store, the
\* timestamp, the return.
Threads == {1, 2}
Idle == [pc |-> "idle"]
NoValue == [none |-> TRUE]

begin(op, arg) ==
    [op |-> op, key |-> IF op = "get_balance" THEN to_checksum_address(arg) ELSE TX_LOG,
     pc |-> "check", val |-> NoValue, ret |-> NoValue, calls |-> 0,
     hit |-> FALSE, ok |-> FALSE]

is_cached(c, rq) ==
    IF rq.op = "get_balance" THEN rq.key \in DOMAIN c.balance_cache ELSE c.tx_cache # <<>>
cached_value(c, rq) ==
    IF rq.op = "get_balance" THEN c.balance_cache[rq.key] ELSE c.tx_cache
upstream_value(rq) ==
    IF rq.op = "get_balance" THEN format_balance(balanceOf(rq.key)) ELSE chain_log

\* Faulty variant, for contrast: a miss joins a fetch of the same key already in flight
check_cache_single_flight(c, rq) ==
    IF _is_cache_valid(c) /\ is_cached(c, rq)
    THEN [rq EXCEPT !.pc = "done", !.ret = cached_value(c, rq), !.hit = TRUE, !.ok = TRUE]
    ELSE IF \E u \in Threads : /\ requests[u].pc \in {"fetch", "store", "stamp", "return"}
                                /\ requests[u].key = rq.key
         THEN [rq EXCEPT !.pc = "done", !.ret = upstream_value(rq), !.ok = TRUE]
         ELSE [rq EXCEPT !.pc = "fetch"]

\* if self._is_cache_valid() and <entry held>: return <entry>
check_cache(c, rq) ==
    IF _is_cache_valid(c) /\ is_cached(c, rq)
    THEN [rq EXCEPT !.pc = "done", !.ret = cached_value(c, rq), !.hit = TRUE, !.ok = TRUE]
    ELSE [rq EXCEPT !.pc = "fetch"]

\* the upstream call, into a local
fetch(rq, failed) ==
    IF failed
    THEN [rq EXCEPT !.pc = "done", !.calls = @ + 1,
                    !.ret = IF rq.op = "get_balance" THEN Zero ELSE <<>>]
    ELSE [rq EXCEPT !.pc = "store", !.calls = @ + 1, !.val = upstream_value(rq), !.ok = TRUE]

\* Faulty variant, for contrast: an entry already held is kept (first write wins)
store_value_keep_existing(c, rq) ==
    IF rq.op = "get_balance"
    THEN [c EXCEPT !.balance_cache = c.balance_cache @@ (rq.key :> rq.val)]
    ELSE [c EXCEPT !.tx_cache = IF c.tx_cache # <<>> THEN c.tx_cache ELSE rq.val]

\* self._balance_cache[address] = formatted_balance / self._tx_cache = data['result']
store_value(c, rq) ==
    IF rq.op = "get_balance"
    THEN [c EXCEPT !.balance_cache = (rq.key :> rq.val) @@ c.balance_cache]
    ELSE [c EXCEPT !.tx_cache = rq.val]

\* return formatted_balance (the local) / return self._tx_cache (the field)
return_value(c, rq) == IF rq.op = "get_balance" THEN rq.val ELSE c.tx_cache

\* ------------------------------------------------------------ HTTP handlers
\* request.args.get('address') of a request without the parameter (None), or
\* with an empty one.
NO_ARGUMENT == <<-4, "missing">>
BadRequest(message) == [status |-> 400, body |-> [error |-> message]]
Ok(body) == [status |-> 200, body |-> body]

api_get_balance(c, address, k, fails) ==
    IF address = NO_ARGUMENT
    THEN [c |-> c, k |-> k, response |-> BadRequest("Address parameter is required")]
    ELSE LET r == get_balance(c, address, k, fails)
         IN [c |-> r.c, k |-> r.k,
             response |-> IF r.raised THEN BadRequest(r.ret.error)
                          ELSE Ok([balance |-> r.ret])]

api_get_balance_batch(c, addresses, k, fails) ==
    LET r == get_balance_batch(c, addresses, k, fails)
    IN [c |-> r.c, k |-> r.k,
        response |-> IF r.raised THEN BadRequest(r.ret.error)
                     ELSE Ok([balances |-> r.ret])]

\* Faulty variant, for contrast: n is passed on without the test of its sign
api_get_top_unchecked(c, n, k, fails) ==
    LET r == get_top_holders(c, n, k, fails)
    IN [c |-> r.c, k |-> r.k, response |-> Ok([top_holders |-> r.ret])]

api_get_top(c, n, k, fails) ==
    IF n <= 0
    THEN [c |-> c, k |-> k, response |-> BadRequest("Parameter 'n' must be positive")]
    ELSE LET r == get_top_holders(c, n, k, fails)
         IN [c |-> r.c, k |-> r.k, response |-> Ok([top_holders |-> r.ret])]

api_get_top_with_transactions(c, n, k, fails) ==
    IF n <= 0
    THEN [c |-> c, k |-> k, response |-> BadRequest("Parameter 'n' must be positive")]
    ELSE LET r == get_top_with_transactions(c, n, k, fails)
         IN [c |-> r.c, k |-> r.k, response |-> Ok([holders |-> r.ret])]

api_address_history(c, address, limit, k, fails) ==
    IF address = NO_ARGUMENT
    THEN [c |-> c, k |-> k, response |-> BadRequest("Address parameter is required")]
    ELSE LET r == get_address_history(c, address, limit, k, fails)
         IN [c |-> r.c, k |-> r.k,
             response |-> Ok([address |-> address, transactions |-> r.ret])]

\* ---------------------------------------------------------------- statistics
\* x + y and x / n of floats, exact
AddFloat(x, y) == TrueDiv(x.num * y.den + y.num * x.den, x.den * y.den)
DivFloat(x, n) == TrueDiv(x.num, x.den * n)

\* sum(balance for _, balance in holders), from the int 0
RECURSIVE sum_balances(_)
sum_balances(holders) ==
    IF holders = <<>> THEN Zero
    ELSE AddFloat(sum_balances(SubSeq(holders, 1, Len(holders) - 1)), holders[Len(holders)][2])

ZeroDivisionError == [error |-> "ZeroDivisionError"]

\* Faulty variant, for contrast: the division without its guard
average_balance_unguarded(total_held, unique_holders) ==
    IF unique_holders # 0 THEN DivFloat(total_held, unique_holders) ELSE ZeroDivisionError

\* total_held / unique_holders if unique_holders > 0 else 0
average_balance(total_held, unique_holders) ==
    IF unique_holders > 0 THEN DivFloat(total_held, unique_holders) ELSE Zero

\* The n that get_token_stats passes to get_top_holders.
StatsTop == 100

\* {**basic_info, ...}: the fields of the token info, when it has any, beside the
\* three statistics.  An exception anywhere in the body returns {}.
get_token_stats(c, k, fails) ==
    LET basic_info == get_token_info(c, k, fails)
        holders == get_top_holders(basic_info.c, StatsTop, basic_info.k, fails)
        total_held == sum_balances(holders.ret)
        unique_holders == Len(holders.ret)
        average == average_balance(total_held, unique_holders)
        fields == IF basic_info.ret = EmptyObject THEN <<>> ELSE basic_info.ret
    IN [c |-> holders.c, k |-> holders.k,
        ret |-> IF average = ZeroDivisionError THEN EmptyObject
                ELSE ("unique_holders" :> unique_holders) @@ ("total_held" :> total_held)
                     @@ ("average_balance" :> average) @@ fields,
        holders |-> holders.ret, log |-> holders.log, looked |-> holders.looked]

\* -------------------------------------------------------------- environment
\* The decimal string of n, as the provider's JSON carries numbers.
RECURSIVE Digits(_)
Digits(n) == IF n < 10 THEN <<n>> ELSE Append(Digits(n \div 10), n % 10)

DecimalsSet == {0, 6}
RawBalances == {0, 10000, 5000000}
HolderBalances == {0, 1000000, 5000000}
CacheAccounts == {1, 2}

Transfer(f, t, v, ts) == [from |-> f, to |-> t, value |-> Digits(v), timeStamp |-> Digits(ts)]

\* The chain's transfers, oldest first: a mint to 0xAAA, then the two transfers
\* of the specification's scenario (0xBBB -> 0xCCC at 100, 0xAAA -> 0xBBB at
\* 200), then one whose sender is written in checksum case.
History ==
    << Transfer(ZERO_ADDRESS, Lower(1), 5000000, 50),
       Transfer(Lower(2), Lower(3), 1000000, 100),
       Transfer(Lower(1), Lower(2), 5000000, 200),
       Transfer(Checksum(2), Lower(1), 1000000, 86700) >>

\* The provider's page ('sort': 'desc', one page of 'offset' records, here
\* MaxLog) when the chain has made its first i transfers.
RECURSIVE Reverse(_)
Reverse(seq) == IF seq = <<>> THEN <<>> ELSE Append(Reverse(Tail(seq)), Head(seq))
Page(i) == Reverse(SubSeq(History, Max(1, i - MaxLog + 1), i))
Pages == {Page(i) : i \in 0..Len(History)}

\* -------------------------------------------------------------------- Init
Construct ==
    /\ now = StartTime
    /\ balance_cache = <<>>
    /\ tx_cache = <<>>
    /\ token_info_cache = NoInfo
    /\ last_cache_update = 0
    /\ requests = [t \in Threads |-> Idle]
    /\ fetched_at = [key \in CacheKeys |-> -1]
    /\ last = [op |-> "init"]

Init ==
    /\ Construct
    /\ hash_seed = 1
    /\ decimals \in DecimalsSet
    /\ chain_balance \in [CacheAccounts -> RawBalances]
    /\ chain_log \in {<<>>, <<Transfer(Lower(1), Lower(2), 5000000, 200)>>}

\* ----------------------------------------------------------------- actions
Store(c) ==
    /\ balance_cache' = c.balance_cache
    /\ tx_cache' = c.tx_cache
    /\ token_info_cache' = c.token_info_cache
    /\ last_cache_update' = c.last_cache_update
    /\ fetched_at' = c.fetched_at

\* The textual addresses of the accounts of this run's chain.
KnownTexts == {t \in Texts : t[1] \in DOMAIN chain_balance}

RECURSIVE SeqsUpTo(_, _)
SeqsUpTo(S, n) ==
    IF n = 0 THEN {<<>>}
    ELSE LET shorter == SeqsUpTo(S, n - 1)
         IN shorter \cup {Append(q, x) : q \in {p \in shorter : Len(p) = n - 1}, x \in S}

Tick ==
    /\ now < StartTime + MaxTicks * TickStep
    /\ now' = now + TickStep
    /\ UNCHANGED <<decimals, hash_seed, balance_cache, tx_cache, token_info_cache,
                   last_cache_update, chain_balance, chain_log, requests, fetched_at,
                   last>>

GetBalance ==
    \E addr \in KnownTexts, fails \in SUBSET {1} :
        LET r == get_balance(Self, addr, 0, fails)
            address == to_checksum_address(addr) IN
        /\ Store(r.c)
        /\ last' = [op |-> "get_balance", key |-> address, t |-> now, ret |-> r.ret,
                    hit |-> r.hit, ok |-> r.ok, calls |-> r.k, age |-> AgeOf(Self, address)]
        /\ UNCHANGED <<now, decimals, hash_seed, chain_balance, chain_log, requests>>

GetBalanceBatch ==
    \E addresses \in SeqsUpTo(KnownTexts, MaxBatch), fails \in SUBSET (1..MaxBatch) :
        LET r == get_balance_batch(Self, addresses, 0, fails) IN
        /\ Store(r.c)
        /\ last' = [op |-> "get_balance_batch", arg |-> addresses,
                    ret |-> r.ret, oks |-> r.oks, calls |-> r.k]
        /\ UNCHANGED <<now, decimals, hash_seed, chain_balance, chain_log, requests>>

GetTokenTransactions ==
    \E fails \in SUBSET {1} :
        LET r == _get_token_transactions(Self, 0, fails) IN
        /\ Store(r.c)
        /\ last' = [op |-> "_get_token_transactions", key |-> TX_LOG, t |-> now,
                    ret |-> r.ret, hit |-> r.hit, ok |-> r.ok, calls |-> r.k,
                    age |-> AgeOf(Self, TX_LOG)]
        /\ UNCHANGED <<now, decimals, hash_seed, chain_balance, chain_log, requests>>

GetTokenInfo ==
    \E fails \in SUBSET (1..3) :
        LET r == get_token_info(Self, 0, fails) IN
        /\ Store(r.c)
        /\ last' = [op |-> "get_token_info", key |-> TOKEN_INFO, t |-> now,
                    ret |-> r.ret, hit |-> r.hit, ok |-> r.ok, calls |-> r.k,
                    age |-> AgeOf(Self, TOKEN_INFO)]
        /\ UNCHANGED <<now, decimals, hash_seed, chain_balance, chain_log, requests>>

\* The upstream calls a holder query can make: the log, then one balance per
\* address (get_top_holders) or per address occurrence (with transactions).
MaxCalls(transactions) == 1 + 2 * Len(transactions)
MaxCallsTop(transactions) == 1 + Cardinality(AddressesOf(transactions) \ {ZERO_ADDRESS})

GetTopHolders ==
    \E fails \in SUBSET (1..MaxCallsTop(chain_log)) :
        LET ranked == ranked_holders(Self, 0, fails) IN
        /\ fails \subseteq 1..ranked.k
        /\ \E n \in 1..MaxN :
            LET r == top_n(ranked, n) IN
            /\ Store(r.c)
            /\ last' = [op |-> "get_top_holders", n |-> n, ret |-> r.ret,
                        log |-> r.log, looked |-> r.looked]
        /\ UNCHANGED <<now, decimals, hash_seed, chain_balance, chain_log, requests>>

GetTopWithTransactions ==
    \E fails \in SUBSET (1..MaxCalls(chain_log)) :
        LET ranked == ranked_with_transactions(Self, 0, fails) IN
        /\ fails \subseteq 1..ranked.k
        /\ \E n \in 1..MaxN :
            LET r == top_n(ranked, n) IN
            /\ Store(r.c)
            /\ last' = [op |-> "get_top_with_transactions", n |-> n, ret |-> r.ret,
                        log |-> r.log, looked |-> r.looked]
        /\ UNCHANGED <<now, decimals, hash_seed, chain_balance, chain_log, requests>>

GetAddressHistory ==
    \E addr \in Texts, limit \in 1..MaxN, fails \in SUBSET {1} :
        LET r == get_address_history(Self, addr, limit, 0, fails) IN
        /\ Store(r.c)
        /\ last' = [op |-> "get_address_history", arg |-> addr, limit |-> limit,
                    ret |-> r.ret, log |-> r.log]
        /\ UNCHANGED <<now, decimals, hash_seed, chain_balance, chain_log, requests>>

GetTokenStats ==
    \E fails \in SUBSET (1..(3 + MaxCallsTop(chain_log))) :
        \E r \in {get_token_stats(Self, 0, fails)} :
            /\ fails \subseteq 1..r.k
            /\ Store(r.c)
            /\ last' = [op |-> "get_token_stats", ret |-> r.ret, holders |-> r.holders,
                        log |-> r.log, looked |-> r.looked]
            /\ UNCHANGED <<now, decimals, hash_seed, chain_balance, chain_log, requests>>

\* The cache and its clock: the three cached reads, one call at a time.
Next ==
    \/ Tick
    \/ GetBalance
    \/ GetTokenTransactions
    \/ GetTokenInfo

Spec == Init /\ [][Next]_vars

\* Batch lookups over the balance cache.
InitBatch ==
    /\ Construct
    /\ hash_seed = 1
    /\ decimals = 6
    /\ chain_balance \in [CacheAccounts -> {0, 5000000}]
    /\ chain_log = <<>>

NextBatch ==
    \/ GetBalanceBatch

SpecBatch == InitBatch /\ [][NextBatch]_vars
\* The holder rankings, over every page of the chain's history and every
\* balance of 0xAAA and 0xBBB; 0xCCC holds 1.0 and the all-zero address the
\* burnt tokens.
InitHolders ==
    /\ Construct
    /\ hash_seed \in {1, 2}
    /\ decimals = 6
    /\ \E b \in [{1, 2} -> HolderBalances] :
           chain_balance = (0 :> 5000000) @@ (3 :> 1000000) @@ b
    /\ chain_log \in Pages

NextHolders ==
    \/ GetTopHolders
    \/ GetTopWithTransactions

SpecHolders == InitHolders /\ [][NextHolders]_vars

\* The statistics, over every page of the chain's history and balances of
\* 0xAAA and 0xBBB that are zero, fractional or whole.
StatsBalances == {0, 500000, 5000000}

InitStats ==
    /\ Construct
    /\ hash_seed = 1
    /\ decimals = 6
    /\ \E b \in [{1, 2} -> StatsBalances] :
           chain_balance = (0 :> 5000000) @@ (3 :> 1000000) @@ b
    /\ chain_log \in Pages

NextStats ==
    \/ GetTokenStats

SpecStats == InitStats /\ [][NextStats]_vars

\* The HTTP endpoints, one request at a time, over every page of the chain's
\* history: addresses well-formed, malformed and missing, n and limit of
\* either sign.
RequestTexts == {Lower(1), Checksum(2), BAD_ADDRESS, NO_ARGUMENT}

\* What a handler hands back, with what it cost: the upstream calls made and
\* whether any cache field was written.
Answered(op, arg, r) ==
    /\ Store(r.c)
    /\ last' = [op |-> op, arg |-> arg, status |-> r.response.status,
                body |-> r.response.body, calls |-> r.k,
                changed |-> (r.c # Self)]
    /\ UNCHANGED <<now, decimals, hash_seed, chain_balance, chain_log, requests>>

ApiGetBalance ==
    \E address \in RequestTexts, fails \in SUBSET {1} :
        Answered("api_get_balance", address, api_get_balance(Self, address, 0, fails))

ApiGetBalanceBatch ==
    \E addresses \in SeqsUpTo(RequestTexts \ {NO_ARGUMENT}, MaxBatch), fails \in SUBSET {1} :
        Answered("api_get_balance_batch", addresses,
                 api_get_balance_batch(Self, addresses, 0, fails))

ApiGetTop ==
    \E n \in (-1)..MaxN, fails \in SUBSET {1, 2} :
        Answered("api_get_top", n, api_get_top(Self, n, 0, fails))

ApiGetTopWithTransactions ==
    \E n \in (-1)..MaxN, fails \in SUBSET {1, 2} :
        Answered("api_get_top_with_transactions", n,
                 api_get_top_with_transactions(Self, n, 0, fails))

ApiAddressHistory ==
    \E address \in RequestTexts, limit \in (-1)..MaxN, fails \in SUBSET {1} :
        Answered("api_address_history", <<address, limit>>,
                 api_address_history(Self, address, limit, 0, fails))

InitApi ==
    /\ Construct
    /\ hash_seed = 1
    /\ decimals = 6
    /\ chain_balance = (0 :> 5000000) @@ (1 :> 0) @@ (2 :> 5000000) @@ (3 :> 1000000)
    /\ chain_log \in Pages

NextApi ==
    \/ ApiGetBalance
    \/ ApiGetBalanceBatch
    \/ ApiGetTop
    \/ ApiGetTopWithTransactions
    \/ ApiAddressHistory

SpecApi == InitApi /\ [][NextApi]_vars

\* Two requests in flight at once, on the balance of 0xAAA (written in either
\* case), of 0xBBB, or on the log; the cache is empty, or holds entries stored
\* a full lifetime ago when the chain stood differently.
ConcurrentTexts == {Lower(1), Checksum(1), Lower(2)}

Begin(t) ==
    /\ requests[t].pc = "idle"
    /\ \/ \E addr \in ConcurrentTexts :
             requests' = [requests EXCEPT ![t] = begin("get_balance", addr)]
       \/ requests' = [requests EXCEPT ![t] = begin("_get_token_transactions", TX_LOG)]
    /\ UNCHANGED <<now, decimals, hash_seed, balance_cache, tx_cache, token_info_cache,
                   last_cache_update, chain_balance, chain_log, fetched_at, last>>

CheckCache(t) ==
    /\ requests[t].pc = "check"
    /\ requests' = [requests EXCEPT ![t] = check_cache(Self, requests[t])]
    /\ UNCHANGED <<now, decimals, hash_seed, balance_cache, tx_cache, token_info_cache,
                   last_cache_update, chain_balance, chain_log, fetched_at, last>>

Fetch(t) ==
    /\ requests[t].pc = "fetch"
    /\ \E failed \in BOOLEAN : requests' = [requests EXCEPT ![t] = fetch(requests[t], failed)]
    /\ UNCHANGED <<now, decimals, hash_seed, balance_cache, tx_cache, token_info_cache,
                   last_cache_update, chain_balance, chain_log, fetched_at, last>>

StoreValue(t) ==
    /\ requests[t].pc = "store"
    /\ Store(store_value(Self, requests[t]))
    /\ requests' = [requests EXCEPT ![t].pc = "stamp"]
    /\ UNCHANGED <<now, decimals, hash_seed, chain_balance, chain_log, last>>

Stamp(t) ==
    /\ requests[t].pc = "stamp"
    /\ Store(_update_cache_timestamp(Self, requests[t].key))
    /\ requests' = [requests EXCEPT ![t].pc = "return"]
    /\ UNCHANGED <<now, decimals, hash_seed, chain_balance, chain_log, last>>

Return(t) ==
    /\ requests[t].pc = "return"
    /\ requests' = [requests EXCEPT ![t].pc = "done",
                                     ![t].ret = return_value(Self, requests[t])]
    /\ UNCHANGED <<now, decimals, hash_seed, balance_cache, tx_cache, token_info_cache,
                   last_cache_update, chain_balance, chain_log, fetched_at, last>>

StaleTime == StartTime - cache_lifetime

InitConcurrent ==
    /\ now = StartTime
    /\ hash_seed = 1
    /\ decimals = 6
    /\ chain_balance = (1 :> 5000000) @@ (2 :> 1000000)
    /\ chain_log = <<Transfer(Lower(1), Lower(2), 5000000, 200)>>
    /\ token_info_cache = NoInfo
    /\ requests = [t \in Threads |-> Idle]
    /\ last = [op |-> "init"]
    /\ \/ /\ balance_cache = <<>>
          /\ tx_cache = <<>>
          /\ last_cache_update = 0
          /\ fetched_at = [key \in CacheKeys |-> -1]
       \/ /\ balance_cache = (Checksum(1) :> TrueDiv(1000000, Pow10(6)))
          /\ tx_cache = <<Transfer(ZERO_ADDRESS, Lower(1), 5000000, 50)>>
          /\ last_cache_update = StaleTime
          /\ fetched_at = [key \in CacheKeys |->
                              IF key \in {Checksum(1), TX_LOG} THEN StaleTime ELSE -1]

NextConcurrent ==
    \/ Tick
    \/ \E t \in Threads : Begin(t)
    \/ \E t \in Threads : CheckCache(t)
    \/ \E t \in Threads : Fetch(t)
    \/ \E t \in Threads : StoreValue(t)
    \/ \E t \in Threads : Stamp(t)
    \/ \E t \in Threads : Return(t)

SpecConcurrent == InitConcurrent /\ [][NextConcurrent]_vars

\* The address histories, over every page of the chain's history.
InitHistory ==
    /\ Construct
    /\ hash_seed = 1
    /\ decimals \in DecimalsSet
    /\ chain_balance = [a \in Accounts \cup {0} |-> 0]
    /\ chain_log \in Pages

NextHistory ==
    \/ GetAddressHistory

SpecHistory == InitHistory /\ [][NextHistory]_vars

\* ------------------------------------------------------------------ claims
GetOps == {"get_balance", "_get_token_transactions", "get_token_info"}

\* C1 (as claimed): a value answered from the cache was stored by a fetch of
\* that same key less than cache_lifetime before the read.
C1_HitIsOwnFresh ==
    (last.op \in GetOps /\ last.hit) => (last.age # -1 /\ last.age < cache_lifetime)

\* C2 (as claimed): once cache_lifetime has elapsed since a key's own last
\* successful fetch, the next get of that key goes upstream (once) whatever
\* happened to other keys in between.
C2_StaleIsRefetched ==
    (last.op \in GetOps /\ last.age >= cache_lifetime) => (~last.hit /\ last.calls >= 1)

\* A step that is a call (the clock stands still and something is recorded).
IsCall == now' = now /\ vars' # vars

\* C3 (as claimed): of two successive get_balance(A) calls less than
\* cache_lifetime apart, with the upstream unchanged and answering, the second
\* returns what the first returned and makes no upstream call.
C3_SecondCallIsHit ==
    [][(/\ IsCall
        /\ last.op = "get_balance" /\ last'.op = "get_balance"
        /\ last'.key = last.key
        /\ last.ok /\ last'.ok
        /\ now - last.t < cache_lifetime)
       => (last'.ret = last.ret /\ last'.calls = 0)]_vars

\* C3 (amended): a get_balance(A) call made less than cache_lifetime after a
\* successful upstream fetch of A is a cache hit with no upstream call, and when
\* it directly follows the call that fetched, it returns what that call returned.
C3_HitAfterFetch ==
    /\ [](last.op = "get_balance" /\ last.age # -1 /\ last.age < cache_lifetime
            => last.hit /\ last.calls = 0)
    /\ [][(/\ IsCall
           /\ last.op = "get_balance" /\ last'.op = "get_balance"
           /\ last'.key = last.key
           /\ last.ok /\ ~last.hit
           /\ now - last.t < cache_lifetime)
          => (last'.hit /\ last'.ret = last.ret /\ last'.calls = 0)]_vars

C3_Witness ==
    /\ last.op = "get_balance" /\ last.hit /\ last.age = TickStep
    /\ IsPositive(last.ret)

\* C4: a get_balance(A) that fetched successfully returns a non-negative value
\* equal to rawBalance(A) / 10^decimals.
C4_BalanceIsRawOverDecimals ==
    (last.op = "get_balance" /\ ~last.hit /\ last.ok) =>
        /\ last.ret.num >= 0 /\ last.ret.den > 0
        /\ last.ret.num * Pow10(decimals) = balanceOf(last.key) * last.ret.den

\* raw 10^4 at 6 decimals is 0.01 (the test's 10^16 at 18 decimals, scaled)
C4_Witness ==
    /\ last.op = "get_balance" /\ ~last.hit /\ last.ok
    /\ decimals = 6 /\ chain_balance[last.key[1]] = 10000
    /\ last.ret = [num |-> 1, den |-> 100]
\* x = raw / 10^decimals, by cross-multiplication
IsRawOverDecimals(x, raw) == x.den > 0 /\ x.num * Pow10(decimals) = raw * x.den

\* C5: get_balance_batch returns one balance per input address, in input order,
\* and for an empty input an empty sequence without any upstream call.
C5_BatchInOrder ==
    last.op = "get_balance_batch" =>
        /\ Len(last.ret) = Len(last.arg)
        /\ last.calls <= Len(last.arg)
        /\ \A i \in 1..Len(last.ret) :
              IF last.oks[i]
              THEN IsRawOverDecimals(last.ret[i], chain_balance[last.arg[i][1]])
              ELSE last.ret[i] = Zero

C5_Witness ==
    /\ last.op = "get_balance_batch" /\ Len(last.arg) = 2
    /\ last.arg[1][1] # last.arg[2][1]
    /\ last.oks = <<TRUE, TRUE>> /\ Gt(last.ret[2], last.ret[1])

\* The balance a holder query got for address a (each is asked for once).
Looked(a) == {last.looked[i][2] : i \in {j \in 1..Len(last.looked) : last.looked[j][1] = a}}
LogAddresses == AddressesOf(last.log) \ {ZERO_ADDRESS}
Holding == {a \in LogAddresses : \E b \in Looked(a) : IsPositive(b)}

\* C6: for n >= 1, get_top_holders(n) returns min(n, h) entries, h the number
\* of distinct addresses of the fetched log (as written there), other than the
\* all-zero address, whose resolved balance is positive; no entry is the
\* all-zero address and none has balance <= 0.
C6_TopHoldersCount ==
    (last.op = "get_top_holders" /\ last.n >= 1) =>
        /\ \A a \in LogAddresses : Cardinality(Looked(a)) = 1
        /\ Len(last.ret) = Min(last.n, Cardinality(Holding))
        /\ \A i \in 1..Len(last.ret) :
              /\ last.ret[i][1][1] # 0
              /\ last.ret[i][1] \in Holding
              /\ IsPositive(last.ret[i][2])

\* The specification's scenario: log [0xAAA -> 0xBBB at 200, 0xBBB -> 0xCCC at
\* 100], balances 0xAAA 0, 0xBBB 5.0, 0xCCC 1.0, n = 2.
C6_Witness ==
    /\ last.op = "get_top_holders" /\ last.n = 2
    /\ last.log = <<Transfer(Lower(1), Lower(2), 5000000, 200),
                    Transfer(Lower(2), Lower(3), 1000000, 100)>>
    /\ chain_balance[1] = 0 /\ chain_balance[2] = 5000000 /\ chain_balance[3] = 1000000
    /\ last.ret = << <<Lower(2), [num |-> 5, den |-> 1]>>,
                     <<Lower(3), [num |-> 1, den |-> 1]>> >>

RankingOps == {"get_top_holders", "get_top_with_transactions"}

\* C7 (as claimed): the ranking is strictly descending by balance.
C7_StrictlyDescending ==
    last.op \in RankingOps =>
        \A i \in 1..(Len(last.ret) - 1) : Gt(last.ret[i][2], last.ret[i + 1][2])

\* C7 (amended): the ranking is descending by balance, equal balances allowed:
\* no entry's balance is smaller than the balance of the entry that follows it.
C7_Descending ==
    last.op \in RankingOps =>
        \A i \in 1..(Len(last.ret) - 1) : ~Gt(last.ret[i + 1][2], last.ret[i][2])

C7_Witness ==
    /\ last.op \in RankingOps /\ Len(last.ret) = 3
    /\ Gt(last.ret[1][2], last.ret[2][2]) /\ last.ret[2][2] = last.ret[3][2]

\* C8 (as claimed): the ranking holds each account at most once, whatever the
\* case its address is written in, and never the all-zero address.
C8_OneEntryPerAccount ==
    last.op \in RankingOps =>
        /\ \A i, j \in 1..Len(last.ret) : i # j => last.ret[i][1][1] # last.ret[j][1][1]
        /\ \A i \in 1..Len(last.ret) : last.ret[i][1][1] # 0

\* The first record of the fetched log that names address a.
FirstRecordOf(a) ==
    LET idx == {i \in 1..Len(last.log) : a \in {last.log[i].to, last.log[i].from}}
    IN last.log[CHOOSE i \in idx : \A j \in idx : i <= j]

\* C9 (as claimed): every entry of get_top_with_transactions carries the
\* timestamp of the newest (first) record of the log that names its address.
C9_LastTxIsNewest ==
    last.op = "get_top_with_transactions" =>
        \A i \in 1..Len(last.ret) :
            last.ret[i][3] = strftime(int(FirstRecordOf(last.ret[i][1]).timeStamp))

\* The records of the fetched log that touch the queried account, in log order.
MatchIdx == {i \in 1..Len(last.log) :
                last.arg[1] \in {last.log[i].to[1], last.log[i].from[1]}}
NthMatch(j) == last.log[CHOOSE i \in MatchIdx : Cardinality({m \in MatchIdx : m <= i}) = j]

\* C10: for limit >= 1, get_address_history returns the first
\* min(limit, matches) records that name the address in either case, in log
\* order, each as receive/sender when the address is the recipient and as
\* send/recipient otherwise, with amount value / 10^decimals.
C10_HistoryIsFirstMatches ==
    (last.op = "get_address_history" /\ last.limit >= 1) =>
        /\ Len(last.ret) = Min(last.limit, Cardinality(MatchIdx))
        /\ \A j \in 1..Len(last.ret) :
              LET tx == NthMatch(j)
                  e == last.ret[j]
              IN /\ e.type = (IF tx.to[1] = last.arg[1] THEN "receive" ELSE "send")
                 /\ e.counterparty = (IF tx.to[1] = last.arg[1] THEN tx.from ELSE tx.to)
                 /\ IsRawOverDecimals(e.amount, int(tx.value))

\* The scenario: history of 0xBBB, limit 1, on the scenario log at 6 decimals.
C10_Witness ==
    /\ last.op = "get_address_history" /\ last.limit = 1 /\ last.arg[1] = 2
    /\ decimals = 6
    /\ last.log = <<Transfer(Lower(1), Lower(2), 5000000, 200),
                    Transfer(Lower(2), Lower(3), 1000000, 100)>>
    /\ Len(last.ret) = 1
    /\ last.ret[1].type = "receive" /\ last.ret[1].counterparty = Lower(1)
    /\ last.ret[1].amount = [num |-> 5, den |-> 1]

\* What each cached read returns when its upstream call fails.
FailureDefault(op) ==
    IF op = "get_balance" THEN Zero
    ELSE IF op = "_get_token_transactions" THEN <<>> ELSE EmptyObject

\* C11: a get_balance, _get_token_transactions or get_token_info call whose
\* upstream call fails returns 0, the empty sequence or the empty object, as a
\* value and not as an error, whether or not an older value is still held for
\* the key; a held value is not returned in its place.
C11_FailureGivesDefault ==
    (last.op \in GetOps /\ ~last.ok) =>
        /\ last.calls >= 1 /\ ~last.hit
        /\ last.ret = FailureDefault(last.op)

\* A failed refresh of a balance whose stale entry holds a positive value.
C11_Witness ==
    /\ last.op = "get_balance" /\ ~last.ok /\ last.ret = Zero
    /\ last.age >= cache_lifetime
    /\ last.key \in DOMAIN balance_cache /\ IsPositive(balance_cache[last.key])

\* C20: a cached read whose upstream fetch fails leaves _balance_cache,
\* _tx_cache, _token_info_cache and _last_cache_update as they were, so a
\* failure default is never stored as a cached value.
C20_FailureLeavesCache ==
    [][(IsCall /\ last'.op \in GetOps /\ ~last'.ok)
       => UNCHANGED <<balance_cache, tx_cache, token_info_cache, last_cache_update>>]_vars

\* A failed refresh of the log, token info or a balance with all three held.
C20_Witness ==
    /\ last.op \in GetOps /\ ~last.ok /\ last.age >= cache_lifetime
    /\ tx_cache # <<>> /\ token_info_cache # NoInfo /\ balance_cache # <<>>

\* The three answers the chain gave at time t, as get_token_info assembles them.
InfoFetchedAt(t) ==
    LET g == (t - StartTime) \div TickStep
    IN [symbol |-> <<ChainSymbol, g>>, name |-> <<ChainName, g>>,
        totalSupply |-> TrueDiv(ChainSupply - g, Pow10(decimals))]

\* C15: the token-info cache is empty or holds symbol, name and totalSupply as
\* answered to one and the same get_token_info fetch (the last successful
\* one); a successful call or a hit returns such an object with all three
\* fields, and a call in which any of the three upstream calls fails returns
\* the empty object.
C15_TokenInfoIsOneUnit ==
    /\ IF fetched_at[TOKEN_INFO] = -1
       THEN token_info_cache = NoInfo
       ELSE token_info_cache = InfoFetchedAt(fetched_at[TOKEN_INFO])
    /\ last.op = "get_token_info" =>
          IF last.ok
          THEN /\ DOMAIN last.ret = {"symbol", "name", "totalSupply"}
               /\ last.ret = token_info_cache
               /\ last.hit \/ last.ret = InfoFetchedAt(last.t)
          ELSE last.ret = EmptyObject /\ last.calls \in 1..3

\* A refresh whose third upstream call fails while an older object is held.
C15_Witness ==
    /\ last.op = "get_token_info" /\ ~last.ok /\ last.calls = 3
    /\ last.ret = EmptyObject
    /\ fetched_at[TOKEN_INFO] # -1 /\ fetched_at[TOKEN_INFO] < now
    /\ token_info_cache = InfoFetchedAt(fetched_at[TOKEN_INFO])

\* How many times the query invoked get_balance for address a.
TimesLooked(a) == Cardinality({j \in 1..Len(last.looked) : last.looked[j][1] = a})

\* C19 (as claimed): within one get_top_with_transactions query get_balance is
\* invoked at most once for each distinct address of the log, however many
\* records mention it and whatever the lookup returns.
C19_ResolvedOnce ==
    last.op = "get_top_with_transactions" =>
        \A a \in AddressesOf(last.log) : TimesLooked(a) <= 1

\* The sum of the balances the query resolved for the addresses in S.
RECURSIVE SumLooked(_)
SumLooked(S) ==
    IF S = {} THEN Zero
    ELSE LET a == CHOOSE x \in S : TRUE
             b == CHOOSE x \in Looked(a) : TRUE
         IN [num |-> b.num * SumLooked(S \ {a}).den + SumLooked(S \ {a}).num * b.den,
             den |-> b.den * SumLooked(S \ {a}).den]
SameFloat(x, y) == x.num * y.den = y.num * x.den

\* C14: get_token_stats returns (never the empty object of its error path)
\* unique_holders = the number of entries of get_top_holders(100), at most
\* 100, total_held = the sum of their balances, and average_balance =
\* total_held / unique_holders when unique_holders > 0 and 0 otherwise.
C14_StatsOfTopHundred ==
    last.op = "get_token_stats" =>
        /\ last.ret # EmptyObject
        /\ last.ret["unique_holders"] = Len(last.holders)
        /\ last.ret["unique_holders"] = Min(StatsTop, Cardinality(Holding))
        /\ Cardinality(Holding) <= StatsTop =>
               SameFloat(last.ret["total_held"], SumLooked(Holding))
        /\ IF last.ret["unique_holders"] > 0
           THEN last.ret["average_balance"].num * last.ret["total_held"].den
                    * last.ret["unique_holders"]
                = last.ret["total_held"].num * last.ret["average_balance"].den
           ELSE last.ret["average_balance"] = Zero /\ last.ret["total_held"] = Zero

\* Three holders of 5.0, 0.5 and 1.0: total 6.5, average 13/6.
C14_Witness ==
    /\ last.op = "get_token_stats"
    /\ last.ret["unique_holders"] = 3
    /\ last.ret["total_held"] = [num |-> 13, den |-> 2]
    /\ last.ret["average_balance"] = [num |-> 13, den |-> 6]
    /\ "symbol" \in DOMAIN last.ret

\* The request named an address (one, or in a batch at least one) that cannot
\* be normalized.
NamesBadAddress ==
    \/ last.op = "api_get_balance" /\ last.arg = BAD_ADDRESS
    \/ last.op = "api_get_balance_batch"
          /\ \E i \in 1..Len(last.arg) : last.arg[i] = BAD_ADDRESS
    \/ last.op = "api_address_history" /\ last.arg[1] = BAD_ADDRESS

\* C12 (as claimed): a request naming an address that cannot be normalized is
\* answered with the InvalidAddress client error, never with a zero or empty
\* result, without any upstream call and with the cache left as it was.
C12_InvalidAddressIsError ==
    NamesBadAddress =>
        /\ last.status = 400 /\ last.body = InvalidAddress
        /\ last.calls = 0 /\ ~last.changed

TopOps == {"api_get_top", "api_get_top_with_transactions"}

\* C13: a top-holders request with n <= 0 is answered with a client error that
\* names the parameter, without any upstream call and without a change of the
\* cache.
C13_NonPositiveNRejected ==
    (last.op \in TopOps /\ last.arg <= 0) =>
        /\ last.status = 400 /\ "error" \in DOMAIN last.body
        /\ last.calls = 0 /\ ~last.changed

\* GetTopHolders(-1) rejected while the chain has a log and nothing is cached.
C13_Witness ==
    /\ last.op = "api_get_top" /\ last.arg = -1 /\ last.status = 400
    /\ chain_log # <<>> /\ tx_cache = <<>> /\ balance_cache = <<>>

\* C18 (as claimed): an address-history request with limit <= 0 is answered
\* with a client error and no history entry, and an accepted request never
\* returns more entries than its limit.
C18_NonPositiveLimitRejected ==
    (last.op = "api_address_history" /\ is_address(last.arg[1])) =>
        /\ last.arg[2] <= 0 => last.status = 400
        /\ last.status = 200 => Len(last.body.transactions) <= last.arg[2]

\* C16: nothing coalesces concurrent misses.  A request that found no valid
\* entry for its key (it is past the test and was not answered from the cache)
\* is about to call upstream or has made exactly one upstream call of its
\* own, whatever other request is in flight for the same key.
C16_EveryMissFetches ==
    \A t \in Threads :
        (requests[t].pc \notin {"idle", "check"} /\ ~requests[t].hit) =>
            IF requests[t].pc = "fetch" THEN requests[t].calls = 0
            ELSE requests[t].calls = 1

\* Two get_balance requests for 0xAAA, not yet cached, have both called
\* balanceOf and neither has stored.
C16_Witness ==
    /\ requests[1].pc = "store" /\ requests[2].pc = "store"
    /\ requests[1].op = "get_balance" /\ requests[2].op = "get_balance"
    /\ requests[1].key = Checksum(1) /\ requests[2].key = Checksum(1)
    /\ requests[1].calls = 1 /\ requests[2].calls = 1
    /\ Checksum(1) \notin DOMAIN balance_cache

\* Both requests are over and each refreshed the same key from upstream.
BothRefreshed ==
    /\ \A t \in Threads : requests[t].pc = "done" /\ ~requests[t].hit /\ requests[t].ok
    /\ requests[1].op = requests[2].op /\ requests[1].key = requests[2].key

\* C17: when two requests have refreshed the same key concurrently (the
\* upstream value unchanged), the cache holds the upstream value for the key
\* and both requests returned it, with two upstream calls made in all.
C17_RaceIsBenign ==
    BothRefreshed =>
        /\ cached_value(Self, requests[1]) = upstream_value(requests[1])
        /\ \A t \in Threads : requests[t].ret = upstream_value(requests[t])
        /\ requests[1].calls + requests[2].calls = 2

\* Both refreshed 0xAAA over an entry held from before, the clock having moved
\* between the two timestamps.
C17_Witness ==
    /\ BothRefreshed /\ requests[1].key = Checksum(1)
    /\ fetched_at[Checksum(1)] > StartTime
    /\ last_cache_update = fetched_at[Checksum(1)]
    /\ balance_cache[Checksum(1)] = [num |-> 5, den |-> 1]
====
